---- MODULE Spec2Model ----
(***************************************************************************)
(* Model of excel_itemizer_docx.py / excel_itemizer_docx_tables.py: the    *)
(* ledger loader (load_ledger), the classifier (compute_sections) and the  *)
(* part of main() that feeds them.  The two scripts share these functions  *)
(* line for line; line numbers are those of excel_itemizer_docx.py.        *)
(*                                                                         *)
(* Representation.                                                         *)
(*   - A Python str is a sequence of one-character strings.                *)
(*   - An amount is an integer number of HALVES (1 = 0.5, 2 = 1.0), so     *)
(*     that rounding to zero decimals is not the identity.                 *)
(*   - A float cell of a frame is [nan |-> BOOLEAN, v |-> Int].            *)
(*   - A date is <<year, month, day>>; Python's None date is <<>>.         *)
(*   - A worksheet cell is [t |-> "nan" | "str" | "num", s |-> str, v].    *)
(*   - The document is the texts of its tables and totals, section by     *)
(*     section; headings, fixed labels and the header block are left out. *)
(***************************************************************************)
EXTENDS Integers, Sequences, FiniteSets, Bags, TLC

VARIABLES pc, workbook, args, col_maps, keywords, all_df, sections, report

vars == <<pc, workbook, args, col_maps, keywords, all_df, sections, report>>

(***************************************************************************)
(* Python str primitives                                                   *)
(***************************************************************************)
LowerLetters == <<"a","b","c","d","e","f","g","h","i","j","k","l","m",
                  "n","o","p","q","r","s","t","u","v","w","x","y","z">>

UpperLetters == <<"A","B","C","D","E","F","G","H","I","J","K","L","M",
                  "N","O","P","Q","R","S","T","U","V","W","X","Y","Z">>

DigitChars == <<"0","1","2","3","4","5","6","7","8","9">>

IsDigit(c) == \E i \in DOMAIN DigitChars : DigitChars[i] = c

DigitVal(c) == (CHOOSE i \in DOMAIN DigitChars : DigitChars[i] = c) - 1

IsSpace(c) == c \in {" ", "\t"}

upper_char(c) ==
    IF \E i \in DOMAIN LowerLetters : LowerLetters[i] = c
    THEN UpperLetters[CHOOSE i \in DOMAIN LowerLetters : LowerLetters[i] = c]
    ELSE c

\* str.upper()
str_upper(s) == [i \in DOMAIN s |-> upper_char(s[i])]

\* str.strip(): drops leading and trailing whitespace
str_strip(s) ==
    LET idx == {i \in DOMAIN s : ~IsSpace(s[i])}
    IN  IF idx = {} THEN <<>>
        ELSE LET lo == CHOOSE i \in idx : \A j \in idx : i <= j
                 hi == CHOOSE i \in idx : \A j \in idx : j <= i
             IN  SubSeq(s, lo, hi)

\* Python's  k in x  on two strings
str_in(k, x) ==
    \E i \in 1..(Len(x) - Len(k) + 1) : SubSeq(x, i, i + Len(k) - 1) = k

\* int() of a string of decimal digits
RECURSIVE int_of(_)
int_of(s) ==
    IF s = <<>> THEN 0
    ELSE 10 * int_of(SubSeq(s, 1, Len(s) - 1)) + DigitVal(s[Len(s)])

(***************************************************************************)
(* Cells and floats                                                        *)
(***************************************************************************)
NaNCell == [t |-> "nan", s |-> <<>>, v |-> 0]
StrCell(x) == [t |-> "str", s |-> x, v |-> 0]
NumCell(n) == [t |-> "num", s |-> <<>>, v |-> n]

NaN == [nan |-> TRUE, v |-> 0]
Float(n) == [nan |-> FALSE, v |-> n]

None == <<>>

\* a missing column name (Python None where a column label is expected)
NoCol == <<"None">>

\* x > 0 on a float column: NaN compares False
gt0(x) == ~x.nan /\ x.v > 0

\* x >= m on a float column: NaN compares False
ge(x, m) == ~x.nan /\ x.v >= m

(***************************************************************************)
(* parse_sheet_date                                                        *)
(***************************************************************************)
IsLeap(y) == (y % 4 = 0 /\ y % 100 # 0) \/ y % 400 = 0

DaysInMonth(y, m) ==
    IF m = 2 THEN (IF IsLeap(y) THEN 29 ELSE 28)
    ELSE IF m \in {4, 6, 9, 11} THEN 30 ELSE 31

\* datetime/Timestamp accept the triple
ValidDate(y, m, d) ==
    /\ y >= 1
    /\ m \in 1..12
    /\ d >= 1 /\ d <= DaysInMonth(y, m)

AllDigits(s) == \A i \in DOMAIN s : IsDigit(s[i])

\* the splits (dl, ml) under which ^(\d{1,2})[/-](\d{1,2})[/-](\d{4})$ matches
DateMatches(n) ==
    {p \in {1, 2} \X {1, 2} :
        /\ Len(n) = p[1] + 1 + p[2] + 1 + 4
        /\ AllDigits(SubSeq(n, 1, p[1]))
        /\ n[p[1] + 1] \in {"/", "-"}
        /\ AllDigits(SubSeq(n, p[1] + 2, p[1] + 1 + p[2]))
        /\ n[p[1] + p[2] + 2] \in {"/", "-"}
        /\ AllDigits(SubSeq(n, p[1] + p[2] + 3, Len(n)))}

\* [raised |-> ValueError escaped, value |-> the date or None]
parse_sheet_date(name) ==
    LET n == str_strip(name)
        ms == DateMatches(n)
    IN  IF ms = {} THEN [raised |-> FALSE, value |-> None]
        ELSE LET p == CHOOSE q \in ms : TRUE
                 d == int_of(SubSeq(n, 1, p[1]))
                 mth == int_of(SubSeq(n, p[1] + 2, p[1] + 1 + p[2]))
                 y == int_of(SubSeq(n, p[1] + p[2] + 3, Len(n)))
             IN  IF ValidDate(y, mth, d)
                 THEN [raised |-> FALSE, value |-> <<y, mth, d>>]
                 ELSE [raised |-> TRUE, value |-> None]

(***************************************************************************)
(* load_ledger                                                             *)
(***************************************************************************)
CUENTA == <<"C","U","E","N","T","A">>
DEBE == <<"D","E","B","E">>
HABER == <<"H","A","B","E","R">>

\* line 34: df.columns = [str(c).strip().upper() for c in df.columns]
normalize_columns(cols) == [i \in DOMAIN cols |-> str_upper(str_strip(cols[i]))]

\* lines 37-42: one pass of the loop body for header c
col_map_step(cm, c) ==
    IF str_in(CUENTA, c) THEN [cm EXCEPT !.CUENTA = c]
    ELSE IF str_in(DEBE, c) THEN [cm EXCEPT !.DEBE = c]
    ELSE IF str_in(HABER, c) THEN [cm EXCEPT !.HABER = c]
    ELSE cm

\* lines 35-42: the loop over df.columns, left to right
RECURSIVE col_map_scan(_, _)
col_map_scan(cols, cm) ==
    IF cols = <<>> THEN cm
    ELSE col_map_scan(Tail(cols), col_map_step(cm, Head(cols)))

\* lines 44-47: the positional fallback
base_cols(cols) == [i \in 1..3 |-> IF i <= Len(cols) THEN cols[i] ELSE NoCol]

\* lines 35-50: the column names of the three roles (NoCol: none)
detect_columns(cols) ==
    LET cm == col_map_scan(cols, [CUENTA |-> NoCol, DEBE |-> NoCol, HABER |-> NoCol])
    IN  IF cm.CUENTA = NoCol \/ cm.DEBE = NoCol
        THEN LET b == base_cols(cols)
             IN  [CUENTA |-> b[1], DEBE |-> b[2], HABER |-> b[3]]
        ELSE cm

\* c in df.columns
in_columns(c, cols) == \E i \in DOMAIN cols : cols[i] = c

\* df[c]: the position of the column labelled c
column_index(c, cols) ==
    CHOOSE i \in DOMAIN cols : cols[i] = c /\ \A j \in DOMAIN cols : cols[j] = c => i <= j

\* pd.to_numeric(errors="coerce") on one cell: text that is not a number is NaN
to_numeric(cell) ==
    CASE cell.t = "num" -> Float(cell.v)
      [] cell.t = "nan" -> NaN
      [] cell.t = "str" ->
            IF cell.s # <<>> /\ AllDigits(cell.s) THEN Float(2 * int_of(cell.s)) ELSE NaN

\* Series.isna() on an object cell
isna_cell(cell) == cell.t = "nan"

\* astype(str) on an object cell holding text or a missing value
astype_str(cell) ==
    CASE cell.t = "nan" -> <<"n","a","n">>
      [] cell.t = "str" -> cell.s

\* lines 51-56: one row of temp, before filtering
temp_row(fecha, cols, cm, r) ==
    [Fecha |-> fecha,
     Cuenta |-> IF in_columns(cm.CUENTA, cols) THEN r[column_index(cm.CUENTA, cols)] ELSE NaNCell,
     Debe |-> IF in_columns(cm.DEBE, cols) THEN to_numeric(r[column_index(cm.DEBE, cols)]) ELSE NaN,
     Haber |-> IF cm.HABER # NoCol /\ cm.HABER # <<>> /\ in_columns(cm.HABER, cols)
               THEN to_numeric(r[column_index(cm.HABER, cols)]) ELSE NaN]

\* line 57: keep unless Cuenta, Debe and Haber are all missing
keep_not_all_na(t) == ~(isna_cell(t.Cuenta) /\ t.Debe.nan /\ t.Haber.nan)

\* line 58: keep unless the cell's text, upper-cased, is the header token
keep_not_header(t) == str_upper(astype_str(t.Cuenta)) # CUENTA

\* line 59: temp["Cuenta"] = temp["Cuenta"].astype(str).str.strip()
strip_cuenta(t) == [t EXCEPT !.Cuenta = str_strip(astype_str(t.Cuenta))]

\* lines 34-60: the frame one readable sheet appends to records
sheet_frame(sheet) ==
    LET cols == normalize_columns(sheet.columns)
        cm == detect_columns(cols)
        fecha == parse_sheet_date(sheet.name).value
        temp == [i \in DOMAIN sheet.rows |-> temp_row(fecha, cols, cm, sheet.rows[i])]
        t1 == SelectSeq(temp, keep_not_all_na)
        t2 == SelectSeq(t1, keep_not_header)
    IN  [i \in DOMAIN t2 |-> strip_cuenta(t2[i])]

\* lines 29-61: the concatenation of the frames of the readable sheets
RECURSIVE concat_records(_)
concat_records(wb) ==
    IF wb = <<>> THEN <<>>
    ELSE (IF Head(wb).readable THEN sheet_frame(Head(wb)) ELSE <<>>)
         \o concat_records(Tail(wb))

\* line 62: all_df = all_df[~all_df["Fecha"].isna()]
has_fecha(row) == row.Fecha # None

\* line 52 is outside the try of lines 30-33: a ValueError of parse_sheet_date
\* on a readable sheet leaves load_ledger
load_raises(wb) ==
    \E i \in DOMAIN wb : wb[i].readable /\ parse_sheet_date(wb[i].name).raised

\* lines 26-64.  Line 63 turns each date into a Timestamp and back into a
\* date, which keeps year, month and day.
load_ledger(wb) ==
    IF load_raises(wb) THEN [raised |-> TRUE, df |-> <<>>]
    ELSE [raised |-> FALSE, df |-> SelectSeq(concat_records(wb), has_fecha)]

(***************************************************************************)
(* pandas primitives used by compute_sections                              *)
(***************************************************************************)
\* the order of dates: groupby sorts its keys
DateLess(a, b) ==
    \/ a[1] < b[1]
    \/ a[1] = b[1] /\ a[2] < b[2]
    \/ a[1] = b[1] /\ a[2] = b[2] /\ a[3] < b[3]

RECURSIVE SortDates(_)
SortDates(S) ==
    IF S = {} THEN <<>>
    ELSE LET m == CHOOSE x \in S : \A z \in S : z = x \/ DateLess(x, z)
         IN  <<m>> \o SortDates(S \ {m})

\* faulty variant of sum_col: only the first row of the group is counted
sum_col_first(df, col) ==
    IF df = <<>> THEN 0
    ELSE (IF Head(df)[col].nan THEN 0 ELSE Head(df)[col].v)

\* Series.sum(): the sum of the values that are not NaN, 0 for none
RECURSIVE sum_col(_, _)
sum_col(df, col) ==
    IF df = <<>> THEN 0
    ELSE (IF Head(df)[col].nan THEN 0 ELSE Head(df)[col].v) + sum_col(Tail(df), col)

\* df[df["Fecha"] == fecha]
rows_of_date(df, fecha) == SelectSeq(df, LAMBDA r : r.Fecha = fecha)

\* df.groupby("Fecha", as_index=False)[col].sum(): one row per date, by date
groupby_sum(df, col) ==
    LET keys == SortDates({df[i].Fecha : i \in DOMAIN df})
    IN  [k \in DOMAIN keys |->
            [Fecha |-> keys[k], total |-> sum_col(rows_of_date(df, keys[k]), col)]]

\* Series.round(0) on halves: to the nearest whole, a tie to the even whole
round0(x) ==
    IF x % 2 = 0 THEN x
    ELSE IF (x - 1) % 4 = 0 THEN x - 1 ELSE x + 1

(***************************************************************************)
(* compute_sections                                                        *)
(***************************************************************************)
\* faulty variant of retiro_mask: the account only has to contain the key
retiro_mask_substring(row, KEY) == str_in(KEY, str_upper(row.Cuenta)) /\ gt0(row.Debe)

\* line 68: (all_df["Cuenta"].str.upper() == PETTY_CASH_KEY) & (all_df["Debe"] > 0)
retiro_mask(row, KEY) == str_upper(row.Cuenta) = KEY /\ gt0(row.Debe)

\* faulty variant of detalle_mask: the petty-cash account is not left out
detalle_mask_any_debit(row, KEY) == gt0(row.Debe)

\* line 72: (all_df["Debe"] > 0) & (all_df["Cuenta"].str.upper() != PETTY_CASH_KEY)
detalle_mask(row, KEY) == gt0(row.Debe) /\ str_upper(row.Cuenta) # KEY

\* lines 74-75: the left merge on Fecha, then fillna(0)
detalle_total_of(det_totals, fecha) ==
    IF \E j \in DOMAIN det_totals : det_totals[j].Fecha = fecha
    THEN det_totals[CHOOSE j \in DOMAIN det_totals : det_totals[j].Fecha = fecha].total
    ELSE 0

\* faulty variant of efectivo_of: the difference is not rounded
efectivo_unrounded(monto, detalle_total) == monto - detalle_total

\* line 76: (Monto - Detalle_Total).round(0)
efectivo_of(monto, detalle_total) == round0(monto - detalle_total)

\* lines 68-76
retiros_of(df, KEY) ==
    LET g == groupby_sum(SelectSeq(df, LAMBDA r : retiro_mask(r, KEY)), "Debe")
        det_totals == groupby_sum(SelectSeq(df, LAMBDA r : detalle_mask(r, KEY)), "Debe")
    IN  [i \in DOMAIN g |->
            LET dt == detalle_total_of(det_totals, g[i].Fecha)
            IN  [Fecha |-> g[i].Fecha,
                 Monto |-> g[i].total,
                 Concepto |-> "COMPRAS",
                 Detalle_Total |-> dt,
                 Efectivo |-> efectivo_of(g[i].total, dt)]]

\* faulty variant of haber_mode: any positive credit selects the mode
haber_mode_any_positive(df) == \E i \in DOMAIN df : gt0(df[i].Haber)

\* line 78: all_df["Haber"].notna().any() and all_df["Haber"].fillna(0).sum() > 0
haber_mode(df) ==
    /\ \E i \in DOMAIN df : ~df[i].Haber.nan
    /\ sum_col(df, "Haber") > 0

\* line 79: all_df["Haber"] > 0
haber_mask(row) == gt0(row.Haber)

\* line 83: any(k in x for k in transfer_keywords), x the upper-cased account
mask_kw(row, kws) == \E i \in DOMAIN kws : str_in(kws[i], str_upper(row.Cuenta))

\* line 84: (all_df["Debe"] >= min_transfer_debe) & mask_kw
debe_mask(row, min_transfer_debe, kws) == ge(row.Debe, min_transfer_debe) /\ mask_kw(row, kws)

\* lines 80, 85: the Tipo column
with_tipo(df, tipo) ==
    [i \in DOMAIN df |->
        [Fecha |-> df[i].Fecha, Cuenta |-> df[i].Cuenta, Debe |-> df[i].Debe,
         Haber |-> df[i].Haber, Tipo |-> tipo]]

\* lines 78-86: the candidates and the value column
posibles_trans_of(df, min_transfer_debe, kws) ==
    IF haber_mode(df)
    THEN [rows |-> with_tipo(SelectSeq(df, haber_mask), "HABER"), valor_col |-> "Haber"]
    ELSE [rows |-> with_tipo(SelectSeq(df, LAMBDA r : debe_mask(r, min_transfer_debe, kws)),
                             "DEBE(MAYOR)"),
          valor_col |-> "Debe"]

\* faulty variant of trans_diario_of: the daily totals always sum Debe
trans_diario_debe(rows, valor_col) ==
    LET g == groupby_sum(rows, "Debe")
    IN  [i \in DOMAIN g |-> [Fecha |-> g[i].Fecha, Monto_Transferido |-> g[i].total]]

\* line 87
trans_diario_of(rows, valor_col) ==
    LET g == groupby_sum(rows, valor_col)
    IN  [i \in DOMAIN g |-> [Fecha |-> g[i].Fecha, Monto_Transferido |-> g[i].total]]

RECURSIVE sum_monto_transferido(_)
sum_monto_transferido(td) ==
    IF td = <<>> THEN 0 ELSE Head(td).Monto_Transferido + sum_monto_transferido(Tail(td))

\* line 88
total_trans_of(td) == IF td # <<>> THEN sum_monto_transferido(td) ELSE 0

\* lines 66-90
compute_sections(df, petty_cash_name, min_transfer_debe, transfer_keywords) ==
    LET PETTY_CASH_KEY == str_upper(petty_cash_name)
        pt == posibles_trans_of(df, min_transfer_debe, transfer_keywords)
        td == trans_diario_of(pt.rows, pt.valor_col)
    IN  [retiros |-> retiros_of(df, PETTY_CASH_KEY),
         detalles |-> SelectSeq(df, LAMBDA r : detalle_mask(r, PETTY_CASH_KEY)),
         posibles_trans |-> pt.rows,
         valor_col |-> pt.valor_col,
         trans_diario |-> td,
         total_trans |-> total_trans_of(td)]

(***************************************************************************)
(* main                                                                    *)
(***************************************************************************)
\* str.split(","): the pieces between the commas
RECURSIVE split_comma(_, _)
split_comma(s, cur) ==
    IF s = <<>> THEN <<cur>>
    ELSE IF Head(s) = "," THEN <<cur>> \o split_comma(Tail(s), <<>>)
    ELSE split_comma(Tail(s), Append(cur, Head(s)))

\* faulty variant of keyword_of: the keyword is not upper-cased
keyword_not_uppercased(k) == str_strip(k)

\* line 204: [k.strip().upper() for k in args.transfer_keywords.split(",") if k.strip()]
keyword_of(k) == str_upper(str_strip(k))

parse_keywords(s) ==
    LET parts == SelectSeq(split_comma(s, <<>>), LAMBDA k : str_strip(k) # <<>>)
    IN  [i \in DOMAIN parts |-> keyword_of(parts[i])]

(***************************************************************************)
(* money, fmt_date and the two renderers                                   *)
(***************************************************************************)
\* the decimal digits of n >= 0
RECURSIVE digits_of(_)
digits_of(n) ==
    IF n < 10 THEN <<DigitChars[n + 1]>>
    ELSE digits_of(n \div 10) \o <<DigitChars[(n % 10) + 1]>>

\* f"{n:,}".replace(",", "."): a point before every group of three digits
RECURSIVE group3(_)
group3(ds) ==
    IF Len(ds) <= 3 THEN ds
    ELSE group3(SubSeq(ds, 1, Len(ds) - 3)) \o <<".">> \o SubSeq(ds, Len(ds) - 2, Len(ds))

\* lines 17-21: money(x) for a float x; int(nan) raises, so NaN prints as "nan"
money(x) ==
    IF x.nan THEN <<"n","a","n">>
    ELSE LET n == round0(x.v) \div 2
         IN  <<"$">> \o (IF n < 0 THEN <<"-">> ELSE <<>>)
                     \o group3(digits_of(IF n < 0 THEN -n ELSE n))

pad2(n) == IF n < 10 THEN <<"0">> \o digits_of(n) ELSE digits_of(n)

pad4(n) ==
    LET ds == digits_of(n)
    IN  [i \in 1..(4 - Len(ds)) |-> "0"] \o ds

\* lines 23-24: strftime("%d/%m/%Y")
fmt_date(d) == pad2(d[3]) \o <<"/">> \o pad2(d[2]) \o <<"/">> \o pad4(d[1])

\* the order of the characters of the account names (by code point)
CharOrder == <<" ">> \o DigitChars \o UpperLetters \o LowerLetters

CharRank(c) == CHOOSE i \in DOMAIN CharOrder : CharOrder[i] = c

\* a < b on two strings
RECURSIVE str_less(_, _)
str_less(a, b) ==
    IF b = <<>> THEN FALSE
    ELSE IF a = <<>> THEN TRUE
    ELSE IF Head(a) = Head(b) THEN str_less(Tail(a), Tail(b))
    ELSE CharRank(Head(a)) < CharRank(Head(b))

\* sub.sort_values("Cuenta"): rows of equal account keep their order
RECURSIVE insert_by_cuenta(_, _)
insert_by_cuenta(sorted, row) ==
    IF sorted = <<>> THEN <<row>>
    ELSE IF str_less(row.Cuenta, Head(sorted).Cuenta)
         THEN <<row>> \o sorted
         ELSE <<Head(sorted)>> \o insert_by_cuenta(Tail(sorted), row)

RECURSIVE sort_by_cuenta(_)
sort_by_cuenta(df) ==
    IF df = <<>> THEN <<>>
    ELSE insert_by_cuenta(sort_by_cuenta(SubSeq(df, 1, Len(df) - 1)), df[Len(df)])

\* df.groupby("Fecha"): the groups, by date
groups_by_fecha(df) ==
    LET keys == SortDates({df[i].Fecha : i \in DOMAIN df})
    IN  [k \in DOMAIN keys |-> [fecha |-> keys[k], sub |-> rows_of_date(df, keys[k])]]

RECURSIVE sum_monto(_)
sum_monto(rt) == IF rt = <<>> THEN 0 ELSE Head(rt).Monto + sum_monto(Tail(rt))

\* lines 106-122: the withdrawals table and TOTAL CAJAS (retiros is already
\* in date order)
retiros_section(s) ==
    [rows |-> [i \in DOMAIN s.retiros |->
                 <<fmt_date(s.retiros[i].Fecha), money(Float(s.retiros[i].Monto))>>],
     total |-> IF s.retiros # <<>> THEN money(Float(sum_monto(s.retiros))) ELSE <<>>]

\* lines 124-150: one block per day of detalles. narrated (build_docx): the
\* TOTAL is written only on a day with a withdrawal, followed by the sentence
\* of lines 144-147; otherwise (build_docx_tables) TOTAL is a row of every day
detalles_section(s, narrated) ==
    LET gs == groups_by_fecha(s.detalles)
    IN  [g \in DOMAIN gs |->
            LET sub == sort_by_cuenta(gs[g].sub)
                tot == money(Float(sum_col(gs[g].sub, "Debe")))
                fila == SelectSeq(s.retiros, LAMBDA r : r.Fecha = gs[g].fecha)
            IN  [fecha |-> fmt_date(gs[g].fecha),
                 rows |-> [i \in DOMAIN sub |-> <<sub[i].Cuenta, money(sub[i].Debe)>>],
                 total |-> IF narrated /\ fila = <<>> THEN <<>> ELSE tot,
                 efectivo |-> IF fila # <<>> THEN money(Float(fila[1].Efectivo)) ELSE <<>>,
                 narrative |-> IF fila # <<>> /\ narrated
                               THEN <<fmt_date(gs[g].fecha), money(Float(fila[1].Monto)),
                                      tot, money(Float(fila[1].Efectivo))>>
                               ELSE <<>>]]

\* line 175: the value shown for a transfer line
shown_val(row) == IF ~row.Haber.nan /\ row.Haber.v > 0 THEN row.Haber ELSE row.Debe

\* excel_itemizer_docx.py line 179: sub['Debe'].sum()
day_total_docx(sub) == Float(sum_col(sub, "Debe"))

\* excel_itemizer_docx_tables.py line 211:
\* sub["Debe"].sum() if sub["Debe"].notna().any() else sub["Haber"].sum()
day_total_tables(sub) ==
    IF \E i \in DOMAIN sub : ~sub[i].Debe.nan
    THEN Float(sum_col(sub, "Debe"))
    ELSE Float(sum_col(sub, "Haber"))

\* lines 167-180: one block per day of posibles_trans; tables: the TOTAL is
\* that of build_docx_tables
trans_days(s, tables) ==
    LET gs == groups_by_fecha(s.posibles_trans)
    IN  [g \in DOMAIN gs |->
            LET sub == sort_by_cuenta(gs[g].sub)
            IN  [fecha |-> fmt_date(gs[g].fecha),
                 rows |-> [i \in DOMAIN sub |-> <<sub[i].Cuenta, money(shown_val(sub[i]))>>],
                 total |-> money(IF tables THEN day_total_tables(gs[g].sub)
                                           ELSE day_total_docx(gs[g].sub))]]

\* lines 152-182: the transfers table, its TOTAL and the blocks per day, or
\* nothing but the placeholder when trans_diario is empty
trans_section(s, tables) ==
    IF s.trans_diario # <<>>
    THEN [rows |-> [i \in DOMAIN s.trans_diario |->
                      <<fmt_date(s.trans_diario[i].Fecha),
                        money(Float(s.trans_diario[i].Monto_Transferido))>>],
          total |-> money(Float(s.total_trans)),
          days |-> trans_days(s, tables)]
    ELSE [rows |-> <<>>, total |-> <<>>, days |-> <<>>]

\* excel_itemizer_docx.py lines 92-184
build_docx(s) ==
    [retiros |-> retiros_section(s),
     detalles |-> detalles_section(s, TRUE),
     transfers |-> trans_section(s, FALSE)]

\* excel_itemizer_docx_tables.py lines 95-216
build_docx_tables(s) ==
    [retiros |-> retiros_section(s),
     detalles |-> detalles_section(s, FALSE),
     transfers |-> trans_section(s, TRUE)]

NoReport ==
    [retiros |-> [rows |-> <<>>, total |-> <<>>], detalles |-> <<>>,
     transfers |-> [rows |-> <<>>, total |-> <<>>, days |-> <<>>]]

(***************************************************************************)
(* The run of main(): lines 203-210                                        *)
(***************************************************************************)
NoSections ==
    [retiros |-> <<>>, detalles |-> <<>>, posibles_trans |-> <<>>,
     valor_col |-> "", trans_diario |-> <<>>, total_trans |-> 0]

NoColMap == [CUENTA |-> NoCol, DEBE |-> NoCol, HABER |-> NoCol]

\* lines 35-50: col_map of each sheet the loop of load_ledger reads
col_maps_of(wb) ==
    [i \in DOMAIN wb |->
        IF wb[i].readable THEN detect_columns(normalize_columns(wb[i].columns))
        ELSE NoColMap]

\* line 203: all_df = load_ledger(excel_path); an exception ends the run
LoadLedger ==
    /\ pc = "start"
    /\ LET r == load_ledger(workbook)
       IN  IF r.raised
           THEN /\ pc' = "failed"
                /\ all_df' = all_df
           ELSE /\ pc' = "loaded"
                /\ all_df' = r.df
    /\ col_maps' = col_maps_of(workbook)
    /\ UNCHANGED <<workbook, args, keywords, sections, report>>

\* line 204
ParseKeywords ==
    /\ pc = "loaded"
    /\ keywords' = parse_keywords(args.transfer_keywords)
    /\ pc' = "parsed"
    /\ UNCHANGED <<workbook, args, col_maps, all_df, sections, report>>

\* lines 205-210
ComputeSections ==
    /\ pc = "parsed"
    /\ sections' = compute_sections(all_df, args.petty_cash_name,
                                    args.min_transfer_debe, keywords)
    /\ pc' = "done"
    /\ UNCHANGED <<workbook, args, col_maps, keywords, all_df, report>>

\* excel_itemizer_docx.py, lines 211-213: build_docx(...)
BuildDocx ==
    /\ pc = "done"
    /\ report' = build_docx(sections)
    /\ pc' = "docx"
    /\ UNCHANGED <<workbook, args, col_maps, keywords, all_df, sections>>

\* excel_itemizer_docx_tables.py, lines 244-245: build_docx_tables(...)
BuildDocxTables ==
    /\ pc = "done"
    /\ report' = build_docx_tables(sections)
    /\ pc' = "tables"
    /\ UNCHANGED <<workbook, args, col_maps, keywords, all_df, sections>>

Next == LoadLedger \/ ParseKeywords \/ ComputeSections \/ BuildDocx \/ BuildDocxTables

(***************************************************************************)
(* Inputs                                                                  *)
(***************************************************************************)
MaxLines == 2
MaxRows == 1
MaxSheets == 3

SeqsUpTo(S, n) == UNION {[1..k -> S] : k \in 0..n}

Sheet(name, readable, columns, rows) ==
    [name |-> name, readable |-> readable, columns |-> columns, rows |-> rows]

Args(petty, min, kws) ==
    [petty_cash_name |-> petty, min_transfer_debe |-> min, transfer_keywords |-> kws]

PlainHeaders == <<<<"C","u","e","n","t","a">>, <<"D","e","b","e">>, <<"H","a","b","e","r">>>>

InitRest ==
    /\ pc = "start"
    /\ col_maps = <<>>
    /\ keywords = <<>>
    /\ all_df = <<>>
    /\ sections = NoSections
    /\ report = NoReport

(* Spec: a workbook of two days with well-formed headers; the ledger rows  *)
(* and the options vary.                                                   *)
DayNames == <<<<"5","/","8","/","2","0","2","5">>, <<"0","6","-","0","8","-","2","0","2","5">>>>

\* ledger rows (account, debit, credit), amounts in halves
LedgerRows ==
    { <<StrCell(<<"c","a","j","a">>), NumCell(6), NaNCell>>,
      <<StrCell(<<"C","A","J","A">>), NumCell(1), NaNCell>>,
      <<StrCell(<<"c","a","j","a","2">>), NumCell(4), NaNCell>>,
      <<StrCell(<<"p","a","n">>), NumCell(1), NaNCell>>,
      <<StrCell(<<"b","a","n","c","o">>), NumCell(4), NaNCell>>,
      <<StrCell(<<"b","a","n","c","o">>), NumCell(2), NaNCell>>,
      <<StrCell(<<"b","a","n","c","o">>), NaNCell, NumCell(2)>>,
      <<StrCell(<<"p","a","n">>), NaNCell, NumCell(-2)>>,
      <<StrCell(<<"p","a","n">>), NumCell(4), NumCell(2)>> }

\* the workbook whose sheet d holds, in order, the rows of ls tagged d
DayWorkbook(ls) ==
    [d \in DOMAIN DayNames |->
        LET mine == SelectSeq(ls, LAMBDA l : l[1] = d)
        IN  Sheet(DayNames[d], TRUE, PlainHeaders, [i \in DOMAIN mine |-> mine[i][2]])]

\* --petty-cash-name, --min-transfer-debe, --transfer-keywords
ArgSets ==
    { Args(<<"C","a","j","a">>, 4, <<"B","A","N">>),
      Args(<<"C","a","j","a">>, 2, <<"b","a","n">>),
      Args(<<"c","a","j">>, 4, <<" ","B","a","n"," ",",","x">>),
      Args(<<"C","a","j","a">>, 2, <<>>),
      Args(<<"C","A","J","A">>, 4, <<"p","a","n",",",",","B","A","N","C","O">>),
      Args(<<"C","a","j","a">>, 4, <<"P","a","n",","," ">>) }

Init ==
    /\ workbook \in {DayWorkbook(ls) : ls \in SeqsUpTo((DOMAIN DayNames) \X LedgerRows, MaxLines)}
    /\ args \in ArgSets
    /\ InitRest

Spec == Init /\ [][Next]_vars

(* SpecLoad: one sheet whose name, readability, headers and cells vary,    *)
(* alone or beside a well-formed sheet of another day.                     *)
SheetNames ==
    { <<"5","/","8","/","2","0","2","5">>,
      <<" ","0","5","-","0","8","-","2","0","2","5"," ">>,
      <<"S","u","m","m","a","r","y">>,
      <<"5","/","8","/","2","5">>,
      <<"3","1","/","0","2","/","2","0","2","5">>,
      <<"2","9","/","2","/","2","0","2","4">> }

HeaderRows ==
    { PlainHeaders,
      <<<<"C","u","e","n","t","a">>, <<"S","u","b","c","u","e","n","t","a">>, <<"D","e","b","e">>, <<"H","a","b","e","r">>>>,
      <<<<" ","d","e","b","e"," ">>, <<"c","u","e","n","t","a">>, <<"H","a","b","e","r">>, <<"D","e","b","e"," ","2">>>>,
      <<<<"a">>, <<"b">>, <<"c">>>>,
      <<<<"N","o","m","b","r","e">>, <<"D","e","b","e">>>> }

\* rows of four cells; a sheet takes as many cells as it has headers
CellRows ==
    { <<StrCell(<<"p","a","n">>), StrCell(<<"4">>), NumCell(2), NaNCell>>,
      <<StrCell(<<" ","C","u","e","n","t","a"," ">>), StrCell(<<" ","c","u","e","n","t","a">>), NaNCell, NaNCell>>,
      <<StrCell(<<"C","U","E","N","T","A">>), StrCell(<<"C","u","e","n","t","a">>), StrCell(<<"D","e","b","e">>), StrCell(<<"H","a","b","e","r">>)>>,
      <<NaNCell, NaNCell, NaNCell, NaNCell>>,
      <<StrCell(<<" ","c","a","j","a"," ">>), StrCell(<<"x">>), NumCell(6), NumCell(1)>>,
      <<NaNCell, NaNCell, NumCell(2), NaNCell>> }

OtherSheet == Sheet(<<"0","6","-","0","8","-","2","0","2","5">>, TRUE, PlainHeaders, <<<<StrCell(<<"p","a","n">>), StrCell(<<"4">>), NaNCell>>>>)

VariedSheets ==
    { Sheet(n, r, h, [i \in DOMAIN rs |-> SubSeq(rs[i], 1, Len(h))]) :
        n \in SheetNames, r \in BOOLEAN, h \in HeaderRows, rs \in SeqsUpTo(CellRows, MaxRows) }

InitLoad ==
    /\ \E v \in VariedSheets : workbook \in {<<v>>, <<v, OtherSheet>>, <<OtherSheet, v>>}
    /\ args \in {Args(<<"C","a","j","a">>, 4, <<"B","A","N">>)}
    /\ InitRest

SpecLoad == InitLoad /\ [][Next]_vars

(* SpecPerm: workbooks of up to MaxSheets sheets taken from a pool.        *)
SheetPool ==
    { Sheet(<<"5","/","8","/","2","0","2","5">>, TRUE, PlainHeaders, <<<<StrCell(<<"c","a","j","a">>), NumCell(6), NaNCell>>, <<StrCell(<<"p","a","n">>), NumCell(1), NaNCell>>>>),
      Sheet(<<"0","5","-","0","8","-","2","0","2","5">>, TRUE, PlainHeaders, <<<<StrCell(<<"C","A","J","A">>), NumCell(1), NaNCell>>, <<StrCell(<<"b","a","n","c","o">>), NumCell(4), NaNCell>>>>),
      Sheet(<<"6","/","8","/","2","0","2","5">>, TRUE, PlainHeaders, <<<<StrCell(<<"b","a","n","c","o">>), NaNCell, NumCell(2)>>, <<StrCell(<<"c","a","j","a">>), NumCell(4), NaNCell>>>>),
      Sheet(<<"6","/","8","/","2","0","2","5">>, TRUE, PlainHeaders, <<<<StrCell(<<"p","a","n">>), NumCell(4), NumCell(-2)>>>>),
      Sheet(<<"S","u","m","m","a","r","y">>, TRUE, PlainHeaders, <<<<StrCell(<<"b","a","n","c","o">>), NumCell(4), NumCell(2)>>>>),
      Sheet(<<"3","1","/","0","2","/","2","0","2","5">>, TRUE, PlainHeaders, <<<<StrCell(<<"p","a","n">>), NumCell(1), NaNCell>>>>),
      Sheet(<<"3","0","/","0","2","/","2","0","2","5">>, FALSE, PlainHeaders, <<<<StrCell(<<"p","a","n">>), NumCell(1), NaNCell>>>>) }

InitPerm ==
    /\ workbook \in SeqsUpTo(SheetPool, MaxSheets)
    /\ args \in {Args(<<"C","a","j","a">>, 4, <<"b","a","n">>), Args(<<"c","a","j">>, 2, <<"x">>)}
    /\ InitRest

SpecPerm == InitPerm /\ [][Next]_vars

(***************************************************************************)
(* Properties.  They are stated over the ledger table all_df and the       *)
(* options, with sums over sets of line numbers, not with the operators    *)
(* compute_sections is built from.                                         *)
(***************************************************************************)
Done == pc = "done"

LineNos == DOMAIN all_df

\* the two strings are equal up to the case of their letters
SameIgnoringCase(a, b) ==
    Len(a) = Len(b) /\ \A i \in DOMAIN a : upper_char(a[i]) = upper_char(b[i])

\* x contains k up to the case of the letters
ContainsIgnoringCase(x, k) ==
    \E i \in 1..(Len(x) - Len(k) + 1) : SameIgnoringCase(SubSeq(x, i, i + Len(k) - 1), k)

Present(i, col) == ~all_df[i][col].nan

Positive(i, col) == Present(i, col) /\ all_df[i][col].v > 0

\* the sum of column col over the lines of I, an absent value counting 0
RECURSIVE SumLines(_, _)
SumLines(I, col) ==
    IF I = {} THEN 0
    ELSE LET i == CHOOSE j \in I : TRUE
         IN  (IF Present(i, col) THEN all_df[i][col].v ELSE 0) + SumLines(I \ {i}, col)

IsPettyCash(i) == SameIgnoringCase(all_df[i].Cuenta, args.petty_cash_name)

\* the lines of a date that are petty-cash withdrawals, and those that are itemized
WithdrawalLines(f) == {i \in LineNos : all_df[i].Fecha = f /\ Positive(i, "Debe") /\ IsPettyCash(i)}

ItemizedLines(f) == {i \in LineNos : all_df[i].Fecha = f /\ Positive(i, "Debe") /\ ~IsPettyCash(i)}

\* r is x (in halves) rounded to a whole amount
RoundedTo(r, x) == r % 2 = 0 /\ r - x \in -1..1

Retiros == sections.retiros

\* C1: in every row of the withdrawals view, Detalle_Total is the sum of the
\* debits of the same-date lines with debit > 0 and an account other than the
\* petty-cash account (0 if there is none), and Efectivo is Monto minus that
\* total rounded to zero decimals, negative results included.
C1_CashDelivered ==
    Done =>
        \A k \in DOMAIN Retiros :
            LET itemizedTotal == SumLines(ItemizedLines(Retiros[k].Fecha), "Debe")
            IN  /\ Retiros[k].Detalle_Total = itemizedTotal
                /\ RoundedTo(Retiros[k].Efectivo, Retiros[k].Monto - itemizedTotal)

\* a withdrawal whose itemized lines exceed it by a fractional amount
C1_Witness ==
    /\ Done
    /\ \E k \in DOMAIN Retiros :
          /\ ItemizedLines(Retiros[k].Fecha) # {}
          /\ Retiros[k].Efectivo < 0
          /\ Retiros[k].Efectivo # Retiros[k].Monto - Retiros[k].Detalle_Total

WithdrawalDates == {all_df[i].Fecha : i \in {j \in LineNos : Positive(j, "Debe") /\ IsPettyCash(j)}}

\* C2: the withdrawals view has exactly one row for each date with a line of
\* debit > 0 whose account equals the petty-cash name up to case, none for
\* any other date, and Monto is the sum of the debits of those lines.
C2_WithdrawalRows ==
    Done =>
        /\ {Retiros[k].Fecha : k \in DOMAIN Retiros} = WithdrawalDates
        /\ Len(Retiros) = Cardinality(WithdrawalDates)
        /\ \A k \in DOMAIN Retiros :
              Retiros[k].Monto = SumLines(WithdrawalLines(Retiros[k].Fecha), "Debe")

\* two withdrawals of one day whose accounts differ in case; their sum is the row
C2_Witness ==
    /\ Done
    /\ \E k \in DOMAIN Retiros :
          \E i, j \in WithdrawalLines(Retiros[k].Fecha) :
              /\ all_df[i].Cuenta # all_df[j].Cuenta
              /\ Retiros[k].Monto = all_df[i].Debe.v + all_df[j].Debe.v

ValorCol == sections.valor_col

Candidates == sections.posibles_trans

TransDiario == sections.trans_diario

\* the ledger lines of the candidates, without the Tipo tag
CandidateLines ==
    [k \in DOMAIN Candidates |->
        [Fecha |-> Candidates[k].Fecha, Cuenta |-> Candidates[k].Cuenta,
         Debe |-> Candidates[k].Debe, Haber |-> Candidates[k].Haber]]

\* the sum of the value column col over the candidates of K
RECURSIVE SumCandidates(_, _)
SumCandidates(K, col) ==
    IF K = {} THEN 0
    ELSE LET k == CHOOSE j \in K : TRUE
         IN  (IF Candidates[k][col].nan THEN 0 ELSE Candidates[k][col].v)
             + SumCandidates(K \ {k}, col)

CandidatesOf(f) == {k \in DOMAIN Candidates : Candidates[k].Fecha = f}

TotalCredit == SumLines(LineNos, "Haber")

ModeTag(col) == IF col = "Haber" THEN "HABER" ELSE "DEBE(MAYOR)"

\* C3: one mode for the whole dataset: credit mode if the sum of credit over
\* all lines is > 0, keyword mode if it is 0; every candidate carries the tag
\* of that mode and every daily total sums that mode's value column.
C3_GlobalMode ==
    Done =>
        /\ TotalCredit > 0 => ValorCol = "Haber"
        /\ TotalCredit = 0 => ValorCol = "Debe"
        /\ ValorCol \in {"Haber", "Debe"}
        /\ \A k \in DOMAIN Candidates : Candidates[k].Tipo = ModeTag(ValorCol)
        /\ \A d \in DOMAIN TransDiario :
              TransDiario[d].Monto_Transferido
                  = SumCandidates(CandidatesOf(TransDiario[d].Fecha), ValorCol)

\* credit appears on one day only, and a line of the other day that keyword
\* mode would take is left out
C3_Witness ==
    /\ Done
    /\ TotalCredit > 0
    /\ Candidates # <<>>
    /\ \E i \in LineNos :
          /\ \A j \in LineNos : all_df[j].Fecha = all_df[i].Fecha => ~Positive(j, "Haber")
          /\ debe_mask(all_df[i], args.min_transfer_debe, keywords)

\* C4 (as claimed): a line with credit > 0 anywhere puts the run in credit
\* mode, where the candidates are exactly the lines with credit > 0.
C4_AnyCreditIsCreditMode ==
    (Done /\ \E i \in LineNos : Positive(i, "Haber")) =>
        /\ ValorCol = "Haber"
        /\ CandidateLines = SelectSeq(all_df, LAMBDA r : ~r.Haber.nan /\ r.Haber.v > 0)

\* the entries of --transfer-keywords between the commas, as typed; nothing
\* between two commas is no keyword
TypedKeywords ==
    LET parts == split_comma(args.transfer_keywords, <<>>)
    IN  {parts[i] : i \in DOMAIN parts} \ {<<>>}

\* the same entries without the blanks around them, blank entries left out
TrimmedKeywords == {str_strip(k) : k \in TypedKeywords} \ {<<>>}

\* the lines keyword mode takes when the keywords are those of K
KeywordLines(K) ==
    SelectSeq(all_df, LAMBDA r :
        /\ ~r.Debe.nan
        /\ r.Debe.v >= args.min_transfer_debe
        /\ \E k \in K : ContainsIgnoringCase(r.Cuenta, k))

\* C5 (as claimed): in keyword mode the candidates are exactly the lines with
\* debit >= minTransferDebit whose account contains, up to case, one of the
\* keywords as supplied.
C5_KeywordsAsTyped ==
    (Done /\ ValorCol = "Debe") => CandidateLines = KeywordLines(TypedKeywords)

\* C5 (amended): in keyword mode the candidates are exactly the lines with
\* debit >= minTransferDebit whose account contains, up to case on both
\* sides, one of the supplied keywords after the blanks around it are
\* removed, empty keywords being ignored; the value column is debit.
C5_KeywordCandidates ==
    (Done /\ ValorCol = "Debe") =>
        /\ CandidateLines = KeywordLines(TrimmedKeywords)
        /\ \A d \in DOMAIN TransDiario :
              TransDiario[d].Monto_Transferido
                  = SumCandidates(CandidatesOf(TransDiario[d].Fecha), "Debe")

\* a keyword typed in lower or mixed case takes a line, and a line with the
\* keyword but a smaller debit is left out
C5_Witness ==
    /\ Done
    /\ ValorCol = "Debe"
    /\ Candidates # <<>>
    /\ \A k \in TrimmedKeywords : k # str_upper(k)
    /\ \E i \in LineNos :
          /\ Present(i, "Debe")
          /\ all_df[i].Debe.v < args.min_transfer_debe
          /\ \E k \in TrimmedKeywords : ContainsIgnoringCase(all_df[i].Cuenta, k)

CandidateDates == {Candidates[k].Fecha : k \in DOMAIN Candidates}

RECURSIVE SumDaily(_)
SumDaily(D) ==
    IF D = {} THEN 0
    ELSE LET d == CHOOSE j \in D : TRUE
         IN  TransDiario[d].Monto_Transferido + SumDaily(D \ {d})

\* the value column of the mode the candidates are tagged with
ActiveCol == IF \E k \in DOMAIN Candidates : Candidates[k].Tipo = "HABER" THEN "Haber" ELSE "Debe"

\* C8: the daily transfer totals have one row per date with a candidate, whose
\* amount is the sum of the active value column over that date's candidates;
\* total_trans is the sum of the daily totals and of the value column over
\* all candidates, and 0 without candidates.
C8_DailyTransferTotals ==
    Done =>
        /\ {TransDiario[d].Fecha : d \in DOMAIN TransDiario} = CandidateDates
        /\ Len(TransDiario) = Cardinality(CandidateDates)
        /\ \A d \in DOMAIN TransDiario :
              TransDiario[d].Monto_Transferido
                  = SumCandidates(CandidatesOf(TransDiario[d].Fecha), ActiveCol)
        /\ sections.total_trans = SumDaily(DOMAIN TransDiario)
        /\ sections.total_trans = SumCandidates(DOMAIN Candidates, ActiveCol)
        /\ Candidates = <<>> => sections.total_trans = 0

\* credit mode with candidates on two days
C8_Witness ==
    /\ Done
    /\ ActiveCol = "Haber"
    /\ Len(TransDiario) = 2
    /\ sections.total_trans
          = TransDiario[1].Monto_Transferido + TransDiario[2].Monto_Transferido

(***************************************************************************)
(* Properties of load_ledger                                               *)
(***************************************************************************)
Loaded == pc \in {"loaded", "parsed", "done"}

\* the sheet's name gives a calendar date
YieldsDate(sheet) == parse_sheet_date(sheet.name).value # None

\* the rows the readable sheets with a date contribute, in workbook order
RECURSIVE DatedRows(_)
DatedRows(wb) ==
    IF wb = <<>> THEN <<>>
    ELSE (IF Head(wb).readable /\ YieldsDate(Head(wb)) THEN sheet_frame(Head(wb)) ELSE <<>>)
         \o DatedRows(Tail(wb))

\* C6 (as claimed): a sheet whose name gives no calendar date contributes no
\* line and raises no error, and the lines of the other sheets are returned.
C6_UndatedSheetsSkipped ==
    pc # "start" =>
        /\ pc # "failed"
        /\ all_df = DatedRows(workbook)

HasToken(cols, tok) == \E j \in DOMAIN cols : str_in(tok, cols[j])

\* the leftmost header that contains the token
FirstWith(cols, tok) ==
    cols[CHOOSE j \in DOMAIN cols :
            /\ str_in(tok, cols[j])
            /\ \A l \in DOMAIN cols : str_in(tok, cols[l]) => j <= l]

\* C9 (as claimed): each role takes the first normalized header that contains
\* its token, the three roles being scanned independently of one another.
C9_FirstMatchPerRole ==
    pc # "start" =>
        \A i \in DOMAIN workbook :
            LET cols == normalize_columns(workbook[i].columns)
            IN  (workbook[i].readable /\ HasToken(cols, CUENTA) /\ HasToken(cols, DEBE)) =>
                    /\ col_maps[i].CUENTA = FirstWith(cols, CUENTA)
                    /\ col_maps[i].DEBE = FirstWith(cols, DEBE)
                    /\ HasToken(cols, HABER) => col_maps[i].HABER = FirstWith(cols, HABER)

\* C10 (as claimed): every line of the table load_ledger returns has a date,
\* is not a row without account, debit and credit, and has an account that,
\* upper-cased, is not the header token.
C10_LedgerLineInvariant ==
    Loaded =>
        \A i \in LineNos :
            /\ all_df[i].Fecha # None
            /\ ~(all_df[i].Cuenta = <<"n","a","n">> /\ all_df[i].Debe.nan /\ all_df[i].Haber.nan)
            /\ str_upper(all_df[i].Cuenta) # CUENTA

(***************************************************************************)
(* Order of the sheets                                                     *)
(***************************************************************************)
Perms(n) == {f \in [1..n -> 1..n] : \A a, b \in 1..n : f[a] = f[b] => a = b}

Permuted(wb, f) == [i \in DOMAIN wb |-> wb[f[i]]]

SeqRange(s) == {s[i] : i \in DOMAIN s}

SeqBag(s) == [x \in SeqRange(s) |-> Cardinality({i \in DOMAIN s : s[i] = x})]

\* what the report is built from, without the order of the rows
Aggregates(s) ==
    [retiros |-> SeqRange(s.retiros),
     detalles |-> SeqBag(s.detalles),
     valor_col |-> s.valor_col,
     posibles_trans |-> SeqBag(s.posibles_trans),
     trans_diario |-> SeqRange(s.trans_diario),
     total_trans |-> s.total_trans]

\* C7: for every permutation of the sheets, load_ledger followed by
\* compute_sections ends the same way and yields the same withdrawal rows,
\* itemized lines, mode, candidates, daily totals and total.
C7_SheetOrderIndependent ==
    pc \in {"done", "failed"} =>
        \A f \in Perms(Len(workbook)) :
            LET r == load_ledger(Permuted(workbook, f))
            IN  /\ r.raised <=> pc = "failed"
                /\ Done =>
                      Aggregates(compute_sections(r.df, args.petty_cash_name,
                                     args.min_transfer_debe,
                                     parse_keywords(args.transfer_keywords)))
                          = Aggregates(sections)

\* two different sheets of the same day whose withdrawals add up, and a
\* third sheet
C7_Witness ==
    /\ Done
    /\ Len(workbook) >= 3
    /\ \E i, j \in DOMAIN workbook :
          /\ workbook[i].rows # workbook[j].rows
          /\ YieldsDate(workbook[i])
          /\ parse_sheet_date(workbook[i].name).value = parse_sheet_date(workbook[j].name).value
          /\ \E k \in DOMAIN Retiros :
                /\ Retiros[k].Fecha = parse_sheet_date(workbook[i].name).value
                /\ Cardinality(WithdrawalLines(Retiros[k].Fecha)) >= 2

(***************************************************************************)
(* The three categories                                                    *)
(***************************************************************************)
\* line i is counted in the amount of a withdrawal row
InWithdrawals(i) ==
    \E k \in DOMAIN Retiros :
        /\ Retiros[k].Fecha = all_df[i].Fecha
        /\ i \in WithdrawalLines(all_df[i].Fecha)
        /\ Retiros[k].Monto = SumLines(WithdrawalLines(all_df[i].Fecha), "Debe")

\* line i is one of the itemized-expense lines
InItemized(i) == all_df[i] \in SeqRange(sections.detalles)

\* line i is one of the transfer candidates
InCandidates(i) == all_df[i] \in SeqRange(CandidateLines)

\* C11 (as claimed): no line is counted in more than one of the withdrawal
\* amounts, the itemized-expense lines and the transfer candidates.
C11_ThreeDisjointCategories ==
    Done =>
        \A i \in LineNos :
            /\ ~(InWithdrawals(i) /\ InItemized(i))
            /\ ~(InWithdrawals(i) /\ InCandidates(i))
            /\ ~(InItemized(i) /\ InCandidates(i))

\* C11 (amended): no line is counted both in a withdrawal amount and among
\* the itemized-expense lines, in either mode (a transfer candidate may also
\* be an itemized line or a withdrawal line).
C11_WithdrawalsApartFromItemized ==
    Done => \A i \in LineNos : ~(InWithdrawals(i) /\ InItemized(i))

\* a withdrawal line beside an itemized line that is also a transfer candidate
C11_Witness ==
    /\ Done
    /\ \E i \in LineNos : InWithdrawals(i)
    /\ \E i \in LineNos : InItemized(i) /\ InCandidates(i)

(***************************************************************************)
(* The per-day transfer breakdown of the two documents                     *)
(***************************************************************************)
Rendered == pc \in {"docx", "tables"}

\* the whole number a money text stands for
Amount(text) ==
    LET ds == SelectSeq(text, IsDigit)
        n == int_of(ds)
    IN  IF str_in(<<"-">>, text) THEN -n ELSE n

RECURSIVE SumShown(_)
SumShown(rows) == IF rows = <<>> THEN 0 ELSE Amount(Head(rows)[2]) + SumShown(Tail(rows))

\* the amount the daily transfer totals table of the document gives a date
TableAmount(doc, fecha) ==
    LET r == SelectSeq(doc.transfers.rows, LAMBDA x : x[1] = fecha)
    IN  IF r = <<>> THEN <<>> ELSE r[1][2]

DayTotals(doc) ==
    [g \in DOMAIN doc.transfers.days |->
        <<doc.transfers.days[g].fecha, doc.transfers.days[g].total>>]

\* C12: in the document of either renderer, the TOTAL of every date of the
\* per-day transfer breakdown is the sum of the values shown for that date's
\* transfer lines and is that date's amount in the daily transfer totals
\* table, in credit mode as in keyword mode; and the two renderers give the
\* same per-day totals for the same sections.
C12_DayTotalsAgree ==
    Rendered =>
        /\ \A g \in DOMAIN report.transfers.days :
              LET day == report.transfers.days[g]
              IN  /\ Amount(day.total) = SumShown(day.rows)
                  /\ day.total = TableAmount(report, day.fecha)
        /\ DayTotals(build_docx(sections)) = DayTotals(build_docx_tables(sections))
====
